---- MODULE Spec2Model ----
(***************************************************************************)
(* Model of mealie/db/models/recipe/ingredient.py: the three ingredient    *)
(* entities (IngredientUnitModel, IngredientFoodModel,                     *)
(* RecipeIngredientModel), their constructors (shadow recomputation and    *)
(* the __table_args__ index plan) and the five attribute "set" listeners   *)
(* that keep the *_normalized shadow columns in step with the raw columns. *)
(*                                                                         *)
(* Text is a sequence of one-character strings.  None is Python's None.    *)
(***************************************************************************)
EXTENDS Integers, Sequences, FiniteSets, TLC

VARIABLES
    bind,      \* session.get_bind().name of the active connection
    models,    \* the constructed instances, in construction order
    rows,      \* the stored rows: the instances as of the last successful commit
    probes,    \* per class: how many times session.get_bind() has been called
    nops,      \* how many operations have run
    last       \* the operation that produced the current state

vars == <<bind, models, rows, probes, nops, last>>

-----------------------------------------------------------------------------
(* Bounds and input sets *)

MaxOps == 3

None == <<"None">>

\* The sample text: case folding and stripping both change it.
Texts == {<<"A", " ">>}

Values == Texts \cup {None}

Groups == {"G1", "G2"}

NoGroup == "None"

Engines == {"sqlite", "postgresql", "mysql"}

GenericEngines == {"sqlite"}

TrigramEngines == {"postgresql"}

-----------------------------------------------------------------------------
(* Text Normalizer *)

LowerChar(c) == IF c = "A" THEN "a" ELSE IF c = "B" THEN "b" ELSE c

Lower(t) == [k \in 1..Len(t) |-> LowerChar(t[k])]

RECURSIVE LStrip(_)
LStrip(t) == IF t # <<>> /\ Head(t) = " " THEN LStrip(Tail(t)) ELSE t

RECURSIVE RStrip(_)
RStrip(t) == IF t # <<>> /\ t[Len(t)] = " " THEN RStrip(SubSeq(t, 1, Len(t) - 1)) ELSE t

normalize(val) == LStrip(RStrip(Lower(val)))

-----------------------------------------------------------------------------
(* The three mapped classes *)

Unit == "IngredientUnitModel"

Food == "IngredientFoodModel"

Line == "RecipeIngredientModel"

Classes == {Unit, Food, Line}

tablename(cls) ==
    CASE cls = Unit -> "ingredient_units"
      [] cls = Food -> "ingredient_foods"
      [] cls = Line -> "recipes_ingredients"

\* The text columns the model follows: the raw columns and their shadows.
RawColumns(cls) ==
    CASE cls = Unit -> {"name", "abbreviation"}
      [] cls = Food -> {"name"}
      [] cls = Line -> {"note", "original_text"}

ShadowColumns(cls) ==
    CASE cls = Unit -> {"name_normalized", "abbreviation_normalized"}
      [] cls = Food -> {"name_normalized"}
      [] cls = Line -> {"note_normalized", "original_text_normalized"}

Columns(cls) == RawColumns(cls) \cup ShadowColumns(cls)

HasGroup(cls) == cls \in {Unit, Food}

\* A new, empty instance: every column None, no __table_args__ of its own.
NewInstance(cls) ==
    [cls |-> cls,
     group_id |-> NoGroup,
     f |-> [c \in Columns(cls) |-> None],
     table_args |-> <<>>]

\* The store itself of an attribute assignment, without the "set" event: what an
\* assignment to a column with no listener amounts to.
Store(target, key, value) ==
    [target EXCEPT !.f = (key :> value) @@ target.f]

-----------------------------------------------------------------------------
(* The attribute "set" listeners *)

receive_unit_name(target, value) ==
    IF value # None
    THEN Store(target, "name_normalized", normalize(value))
    ELSE Store(target, "name_normalized", None)

\* A listener pasted from receive_unit_name with its target column left as it was.
receive_unit_abbreviation_wrong_column(target, value) ==
    IF value # None
    THEN Store(target, "name_normalized", normalize(value))
    ELSE Store(target, "name_normalized", None)

receive_unit_abbreviation(target, value) ==
    IF value # None
    THEN Store(target, "abbreviation_normalized", normalize(value))
    ELSE Store(target, "abbreviation_normalized", None)

receive_food_name(target, value) ==
    IF value # None
    THEN Store(target, "name_normalized", normalize(value))
    ELSE Store(target, "name_normalized", None)

\* A listener without its else branch: None leaves the shadow as it was.
receive_ingredient_note_no_else(target, value) ==
    IF value # None
    THEN Store(target, "note_normalized", normalize(value))
    ELSE target

receive_ingredient_note(target, value) ==
    IF value # None
    THEN Store(target, "note_normalized", normalize(value))
    ELSE Store(target, "note_normalized", None)

receive_ingredient_original_text(target, value) ==
    IF value # None
    THEN Store(target, "original_text_normalized", normalize(value))
    ELSE Store(target, "original_text_normalized", None)

\* event.listens_for(<class>.<attribute>, "set"): the listener registered for
\* the attribute, if any.
Dispatch(target, key, value) ==
    CASE target.cls = Unit /\ key = "name" -> receive_unit_name(target, value)
      [] target.cls = Unit /\ key = "abbreviation" -> receive_unit_abbreviation(target, value)
      [] target.cls = Food /\ key = "name" -> receive_food_name(target, value)
      [] target.cls = Line /\ key = "note" -> receive_ingredient_note(target, value)
      [] target.cls = Line /\ key = "original_text" ->
            receive_ingredient_original_text(target, value)
      [] OTHER -> target

\* target.key = value on an instrumented attribute: the "set" event, then the store.
Setattr(target, key, value) == Store(Dispatch(target, key, value), key, value)

-----------------------------------------------------------------------------
(* Construction *)

Arg(kwargs, key) == IF key \in DOMAIN kwargs THEN kwargs[key] ELSE None

\* auto_init: populate the matching columns from the keyword arguments, unknown
\* keys ignored.  observed: whether the "set" listeners see these assignments.
RECURSIVE Populate(_, _, _, _)
Populate(self, keys, kwargs, observed) ==
    IF keys = {} THEN self
    ELSE LET key == CHOOSE k \in keys : TRUE
             next == IF observed THEN Setattr(self, key, kwargs[key])
                                 ELSE Store(self, key, kwargs[key])
         IN Populate(next, keys \ {key}, kwargs, observed)

auto_init(cls, kwargs, observed) ==
    LET self == [NewInstance(cls) EXCEPT !.group_id = IF HasGroup(cls) /\ "group_id" \in DOMAIN kwargs
                                                       THEN kwargs["group_id"] ELSE NoGroup]
    IN Populate(self, DOMAIN kwargs \cap Columns(cls), kwargs, observed)

UniqueConstraint(cols, nm) ==
    [kind |-> "UniqueConstraint", name |-> nm, columns |-> cols, unique |-> TRUE,
     postgresql_using |-> "", postgresql_ops |-> {}]

Index(nm, col) ==
    [kind |-> "Index", name |-> nm, columns |-> <<col>>, unique |-> FALSE,
     postgresql_using |-> "", postgresql_ops |-> {}]

GinIndex(nm, col, opscol) ==
    [kind |-> "Index", name |-> nm, columns |-> <<col>>, unique |-> FALSE,
     postgresql_using |-> "gin", postgresql_ops |-> {<<opscol, "gin_trgm_ops">>}]

\* The uniqueness constraint moved into the engine branch: declared on the generic
\* engines only.
IngredientUnitModel_tableargs_unique_if_generic(bindname) ==
    IF bindname = "postgresql"
    THEN << Index("ix_ingredient_units_name_normalized", "name_normalized"),
            Index("ix_ingredient_units_abbreviation_normalized", "abbreviation_normalized"),
            GinIndex("ix_ingredient_units_name_normalized_gin",
                     "name_normalized", "name_normalized"),
            GinIndex("ix_ingredient_units_abbreviation_normalized_gin",
                     "abbreviation_normalized", "abbreviation_normalized") >>
    ELSE << UniqueConstraint(<<"name", "group_id">>, "ingredient_units_name_group_id_key"),
            Index("ix_ingredient_units_name_normalized", "name_normalized"),
            Index("ix_ingredient_units_abbreviation_normalized", "abbreviation_normalized") >>

IngredientUnitModel_tableargs(bindname) ==
    << UniqueConstraint(<<"name", "group_id">>, "ingredient_units_name_group_id_key"),
       Index("ix_ingredient_units_name_normalized", "name_normalized"),
       Index("ix_ingredient_units_abbreviation_normalized", "abbreviation_normalized") >>
    \o (IF bindname = "postgresql"
        THEN << GinIndex("ix_ingredient_units_name_normalized_gin",
                         "name_normalized", "name_normalized"),
                GinIndex("ix_ingredient_units_abbreviation_normalized_gin",
                         "abbreviation_normalized", "abbreviation_normalized") >>
        ELSE << >>)

IngredientUnitModel_init(self, bindname, name, abbreviation) ==
    LET s1 == IF name # None
              THEN Setattr(self, "name_normalized", normalize(name))
              ELSE self
        s2 == IF abbreviation # None
              THEN Setattr(s1, "abbreviation", normalize(abbreviation))
              ELSE s1
    IN [s2 EXCEPT !.table_args = IngredientUnitModel_tableargs(bindname)]

\* The gin index given the plain index's name.
IngredientFoodModel_tableargs_misnamed(bindname) ==
    << UniqueConstraint(<<"name", "group_id">>, "ingredient_foods_name_group_id_key"),
       Index("ix_ingredient_foods_name_normalized", "name_normalized") >>
    \o (IF bindname = "postgresql"
        THEN << GinIndex("ix_ingredient_foods_name_normalized",
                         "name_normalized", "name_normalized") >>
        ELSE << >>)

IngredientFoodModel_tableargs(bindname) ==
    << UniqueConstraint(<<"name", "group_id">>, "ingredient_foods_name_group_id_key"),
       Index("ix_ingredient_foods_name_normalized", "name_normalized") >>
    \o (IF bindname = "postgresql"
        THEN << GinIndex("ix_ingredient_foods_name_normalized_gin",
                         "name_normalized", "name_normalized") >>
        ELSE << >>)

IngredientFoodModel_init(self, bindname, name) ==
    LET s1 == IF name # None
              THEN Setattr(self, "name_normalized", normalize(name))
              ELSE self
    IN [s1 EXCEPT !.table_args = IngredientFoodModel_tableargs(bindname)]

RecipeIngredientModel_tableargs(bindname) ==
    << Index("ix_recipes_ingredients_note_normalized", "note_normalized"),
       Index("ix_recipes_ingredients_original_text_normalized", "original_text_normalized") >>
    \o (IF bindname = "postgresql"
        THEN << GinIndex("ix_recipes_ingredients_note_normalized_gin",
                         "note_normalized", "note_normalized"),
                GinIndex("ix_recipes_ingredients_original_text_normalized_gin",
                         "original_text", "original_text_normalized") >>
        ELSE << >>)

\* self.orginal_text is a plain attribute: no column, no listener.
RecipeIngredientModel_init(self, bindname, note, orginal_text) ==
    LET s1 == IF note # None
              THEN Setattr(self, "note_normalized", normalize(note))
              ELSE self
        s2 == IF orginal_text # None
              THEN Setattr(s1, "orginal_text", normalize(orginal_text))
              ELSE s1
    IN [s2 EXCEPT !.table_args = RecipeIngredientModel_tableargs(bindname)]

\* cls(session, **kwargs): auto_init, then the constructor body.
New(cls, bindname, kwargs, observed) ==
    LET self == auto_init(cls, kwargs, observed)
    IN CASE cls = Unit ->
              IngredientUnitModel_init(self, bindname, Arg(kwargs, "name"),
                                       Arg(kwargs, "abbreviation"))
         [] cls = Food ->
              IngredientFoodModel_init(self, bindname, Arg(kwargs, "name"))
         [] cls = Line ->
              RecipeIngredientModel_init(self, bindname, Arg(kwargs, "note"),
                                         Arg(kwargs, "orginal_text"))

\* The keyword arguments a caller may pass.  A caller of RecipeIngredientModel
\* passes the original text under the column's name or under the constructor
\* parameter's name.
KwargsOf(cls) ==
    CASE cls = Unit -> [group_id : Groups, name : Values, abbreviation : Values]
      [] cls = Food -> [group_id : Groups, name : Values]
      [] cls = Line -> [note : Values, original_text : Values]
                       \cup [note : Values, orginal_text : Texts]

-----------------------------------------------------------------------------
(* Storage: rows and declared uniqueness constraints *)

Ids == 1..Len(models)

ColumnOf(obj, col) == IF col = "group_id" THEN obj.group_id ELSE obj.f[col]

IsNull(obj, col) == IF col = "group_id" THEN obj.group_id = NoGroup ELSE obj.f[col] = None

\* Two rows of one table collide on constraint c: equal and non-null on every column.
Collide(c, a, b) ==
    /\ a.cls = b.cls
    /\ \A k \in 1..Len(c.columns) :
          /\ ~IsNull(a, c.columns[k])
          /\ ~IsNull(b, c.columns[k])
          /\ ColumnOf(a, c.columns[k]) = ColumnOf(b, c.columns[k])

Range(s) == {s[k] : k \in 1..Len(s)}

UniqueConstraints(obj) == {c \in Range(obj.table_args) : c.kind = "UniqueConstraint"}

\* The flush fails when two of the rows to store collide on a constraint declared
\* in the first one's __table_args__.
IntegrityError ==
    \E i \in Ids : \E j \in Ids :
        /\ i # j
        /\ \E c \in UniqueConstraints(models[i]) : Collide(c, models[i], models[j])

-----------------------------------------------------------------------------
(* Actions *)

\* last: op is the operation, id the instance it acted on, kwargs and observed the
\* inputs of a construction, key and value the attribute assigned and the value,
\* prior whether the paired shadow held a text before a raw assignment, ok whether
\* a commit went through.
NoOp == [op |-> "init", id |-> 0, kwargs |-> <<>>, observed |-> FALSE, key |-> "",
         value |-> None, prior |-> FALSE, ok |-> TRUE]

Init ==
    /\ bind \in Engines
    /\ models = <<>>
    /\ rows = <<>>
    /\ probes = [c \in Classes |-> 0]
    /\ nops = 0
    /\ last = NoOp

Construct(cls, kwargs, observed) ==
    /\ nops < MaxOps
    /\ nops' = nops + 1
    /\ models' = Append(models, New(cls, bind, kwargs, observed))
    /\ probes' = [probes EXCEPT ![cls] = @ + 1]
    /\ last' = [NoOp EXCEPT !.op = "construct", !.id = Len(models) + 1,
                            !.kwargs = kwargs, !.observed = observed]
    /\ UNCHANGED <<bind, rows>>

ShadowOf(key) == key \o "_normalized"

\* models[i].key = value on a raw column, after construction.
SetRaw(i, key, value) ==
    /\ nops < MaxOps
    /\ nops' = nops + 1
    /\ models' = [models EXCEPT ![i] = Setattr(@, key, value)]
    /\ last' = [NoOp EXCEPT !.op = "set", !.id = i, !.key = key, !.value = value,
                            !.prior = (models[i].f[ShadowOf(key)] # None)]
    /\ UNCHANGED <<bind, rows, probes>>

\* models[i].key = value on a shadow column, written by hand.
SetShadow(i, key, value) ==
    /\ nops < MaxOps
    /\ nops' = nops + 1
    /\ models' = [models EXCEPT ![i] = Setattr(@, key, value)]
    /\ last' = [NoOp EXCEPT !.op = "setshadow", !.id = i, !.key = key, !.value = value]
    /\ UNCHANGED <<bind, rows, probes>>

\* session.commit(): every instance of the session is flushed in one transaction,
\* which the storage engine rolls back on a uniqueness violation.
Commit ==
    /\ nops < MaxOps
    /\ nops' = nops + 1
    /\ rows' = IF IntegrityError THEN rows ELSE models
    /\ last' = [NoOp EXCEPT !.op = "commit", !.ok = ~IntegrityError]
    /\ UNCHANGED <<bind, models, probes>>

Next ==
    \/ \E cls \in Classes : \E kwargs \in KwargsOf(cls) : \E observed \in BOOLEAN :
          Construct(cls, kwargs, observed)
    \/ \E i \in Ids : \E key \in RawColumns(models[i].cls) : \E value \in Values :
          SetRaw(i, key, value)
    \/ \E i \in Ids : \E key \in ShadowColumns(models[i].cls) : \E value \in Values :
          SetShadow(i, key, value)
    \/ Commit

Spec == Init /\ [][Next]_vars

-----------------------------------------------------------------------------
(* Properties *)

Sync(obj, raw) ==
    obj.f[ShadowOf(raw)] = (IF obj.f[raw] # None THEN normalize(obj.f[raw]) ELSE None)

Subject == models[last.id]

PlainIndexesOn(obj, col) ==
    {k \in 1..Len(obj.table_args) :
        /\ obj.table_args[k].kind = "Index"
        /\ obj.table_args[k].postgresql_using = ""
        /\ obj.table_args[k].unique = FALSE
        /\ obj.table_args[k].columns = <<col>>}

TrigramIndexes(obj) ==
    {k \in 1..Len(obj.table_args) :
        /\ obj.table_args[k].kind = "Index"
        /\ obj.table_args[k].postgresql_using = "gin"}

TrigramIndexesOn(obj, col) ==
    {k \in TrigramIndexes(obj) : obj.table_args[k].columns = <<col>>}

\* C1: after every raw-column assignment, those of construction from a field map
\* included, the paired shadow is normalize(raw) when raw is a text and None when
\* raw is None.
C1_SynchronizationInvariant ==
    /\ last.op = "construct" => \A raw \in RawColumns(Subject.cls) : Sync(Subject, raw)
    /\ last.op = "set" => Sync(Subject, last.key)

\* C2: when the listeners do not observe the assignments of the field-map
\* population, the constructor body still leaves every shadow equal to normalize
\* of its raw column, for all five pairs.
C2_DefensiveRecomputation ==
    (last.op = "construct" /\ ~last.observed)
        => \A raw \in RawColumns(Subject.cls) :
              raw \in DOMAIN last.kwargs => Sync(Subject, raw)

\* C3: assigning None to a raw column leaves the paired shadow None, whatever the
\* shadow held before; a raw column left None by construction has a None shadow.
C3_NullPropagation ==
    /\ (last.op = "set" /\ last.value = None)
          => /\ Subject.f[last.key] = None
             /\ Subject.f[ShadowOf(last.key)] = None
    /\ last.op = "construct"
          => \A raw \in RawColumns(Subject.cls) :
                Subject.f[raw] = None => Subject.f[ShadowOf(raw)] = None

C3_Witness ==
    /\ last.op = "set"
    /\ last.value = None
    /\ last.prior
    /\ Subject.cls = Line
    /\ last.key = "note"
    /\ Subject.f["note_normalized"] = None

\* C4: every constructed entity's index set holds, per shadow column, exactly one
\* plain non-unique index on it and, on a trigram-capable engine, exactly one gin
\* index on that same shadow column; on a generic engine, no gin index at all.
C4_IndexFamilyCompleteness ==
    \A i \in Ids : \A col \in ShadowColumns(models[i].cls) :
        /\ Cardinality(PlainIndexesOn(models[i], col)) = 1
        /\ bind \in TrigramEngines => Cardinality(TrigramIndexesOn(models[i], col)) = 1
        /\ bind \in GenericEngines => TrigramIndexes(models[i]) = {}

\* C5: on an engine of neither family no index plan is ever emitted.
C5_UnrecognizedCapabilityFails ==
    bind \notin (GenericEngines \cup TrigramEngines)
        => \A i \in Ids : models[i].table_args = <<>>

SameNameSameGroup(a, b) ==
    /\ a.cls = b.cls
    /\ a.f["name"] # None
    /\ a.f["name"] = b.f["name"]
    /\ a.group_id = b.group_id

\* C6: whatever the engine, the plan of a Unit and of a Food holds exactly one
\* uniqueness constraint, over (name, group_id), named <table>_name_group_id_key;
\* no two stored rows of one table share a name within a group, and a commit is
\* rejected exactly when two of its Units (or Foods) do.
C6_UniquenessBackendIndependent ==
    /\ \A i \in Ids : HasGroup(models[i].cls) =>
          /\ UniqueConstraints(models[i]) =
                {UniqueConstraint(<<"name", "group_id">>,
                                  tablename(models[i].cls) \o "_name_group_id_key")}
          /\ Cardinality({k \in 1..Len(models[i].table_args) :
                             models[i].table_args[k].kind = "UniqueConstraint"}) = 1
    /\ \A i \in 1..Len(rows) : \A j \in 1..Len(rows) :
          (i # j /\ HasGroup(rows[i].cls)) => ~SameNameSameGroup(rows[i], rows[j])
    /\ last.op = "commit" =>
          (last.ok <=> ~\E i \in Ids : \E j \in Ids :
                           i # j /\ HasGroup(models[i].cls)
                                 /\ SameNameSameGroup(models[i], models[j]))

C6_Witness ==
    /\ bind = "postgresql"
    /\ Len(rows) = 2
    /\ rows[1].cls = Unit
    /\ rows[2].cls = Unit
    /\ rows[1].f["name"] # None
    /\ rows[1].f["name"] = rows[2].f["name"]
    /\ rows[1].group_id # rows[2].group_id

IndexName(cls, raw) == "ix_" \o tablename(cls) \o "_" \o raw \o "_normalized"

\* C7: the plan depends on the entity type and the engine only: instances of one
\* type carry the same plan whatever their field values, and its indexes are
\* named ix_<table>_<field>_normalized, with _gin appended for a trigram index.
C7_IndexPlanDeterminism ==
    /\ \A i \in Ids : \A j \in Ids :
          models[i].cls = models[j].cls => models[i].table_args = models[j].table_args
    /\ \A i \in Ids :
          LET obj == models[i]
              idx == {e \in Range(obj.table_args) : e.kind = "Index"}
          IN /\ {e.name : e \in {x \in idx : x.postgresql_using = ""}}
                   = {IndexName(obj.cls, raw) : raw \in RawColumns(obj.cls)}
             /\ {e.name : e \in {x \in idx : x.postgresql_using = "gin"}}
                   = IF bind = "postgresql"
                     THEN {IndexName(obj.cls, raw) \o "_gin" : raw \in RawColumns(obj.cls)}
                     ELSE {}

C7_Witness ==
    \E i \in Ids : \E j \in Ids :
        /\ i # j
        /\ models[i].cls = models[j].cls
        /\ models[i].f # models[j].f
        /\ bind = "postgresql"
        /\ Len(models[i].table_args) > 2
        /\ models[i].table_args = models[j].table_args

\* C8: a raw column given a text, at construction or by a later assignment, holds
\* exactly that text afterwards.
C8_RawValuesPreserved ==
    /\ last.op = "construct"
          => \A raw \in RawColumns(Subject.cls) \cap DOMAIN last.kwargs :
                last.kwargs[raw] # None => Subject.f[raw] = last.kwargs[raw]
    /\ (last.op = "set" /\ last.value # None) => Subject.f[last.key] = last.value

\* C9: the engine identity is queried at most once per entity type, however many
\* instances of the type are constructed.
C9_ProbeOncePerType ==
    \A cls \in Classes : probes[cls] <= 1

\* C10: an assignment to a raw column after construction changes that column and
\* its own shadow on that instance and nothing else; an assignment to a shadow
\* column changes that column alone and stores the value as given.
C10_ReactiveRuleScope ==
    [][ (last'.op \in {"set", "setshadow"}) =>
          LET i == last'.id
              key == last'.key
              touched == IF last'.op = "set" THEN {key, ShadowOf(key)} ELSE {key}
          IN /\ Len(models') = Len(models)
             /\ \A j \in Ids : j # i => models'[j] = models[j]
             /\ models'[i].cls = models[i].cls
             /\ models'[i].group_id = models[i].group_id
             /\ models'[i].table_args = models[i].table_args
             /\ DOMAIN models'[i].f = DOMAIN models[i].f
             /\ \A c \in DOMAIN models[i].f :
                   c \notin touched => models'[i].f[c] = models[i].f[c]
             /\ models'[i].f[key] = last'.value
             /\ <<bind, rows, probes>>' = <<bind, rows, probes>> ]_vars

C10_Witness ==
    /\ last.op = "set"
    /\ Len(models) = 2
    /\ last.id = 1
    /\ models[1].cls = Unit
    /\ models[2].cls = Unit
    /\ last.key = "abbreviation"
    /\ models[1].f["abbreviation_normalized"] # None
    /\ models[1].f["name_normalized"] = None
    /\ models[2].f["abbreviation_normalized"] = None

====
